---- MODULE Spec2Model ----
(***************************************************************************)
(* A model of contracts/polyfill_wat.py: the pass that detects the bulk    *)
(* memory instructions memory.copy / memory.fill in a WebAssembly text     *)
(* module, injects the hand-written $memcpy / $memset functions before the *)
(* last ')' and rewrites the instructions into calls; and of the execution *)
(* of the two injected functions on a linear memory.                       *)
(*                                                                         *)
(* Text is modelled by TLA+ strings, which TLC treats as sequences of      *)
(* characters (Len, SubSeq and \o apply to them).                          *)
(***************************************************************************)
EXTENDS Integers, Sequences, FiniteSets, TLC

VARIABLES
    \* ---- polyfill_wat(wat_path, output_path) ----
    parts,           \* the fragments the input file is made of (history)
    input_file,      \* the text of the file at wat_path
    content,         \* content = f.read()
    has_copy,        \* 'memory.copy' in content
    has_fill,        \* 'memory.fill' in content
    last_paren_idx,  \* content.rfind(')'), 0-based, -1 when absent
    injected_code,   \* the function texts to inject
    new_content,     \* the buffer being injected into and rewritten
    output,          \* the text of the file at output_path
    output_written,  \* whether the file at output_path was written in this run
    pc,              \* position in polyfill_wat
    run,             \* number of the invocation (the second runs on the first's output)
    \* ---- execution of a call of $memcpy / $memset ----
    fn,              \* the function called
    mem0,            \* linear memory at the call
    mem,             \* linear memory
    dest, src, val, len,  \* the parameters ($src of $memcpy, $val of $memset)
    i,               \* (local $i i32)
    stores,          \* number of i32.store8 executed
    mpc              \* position in the function body

textvars == <<parts, input_file, content, has_copy, has_fill, last_paren_idx, injected_code,
              new_content, output, output_written, pc, run>>
execvars == <<fn, mem0, mem, dest, src, val, len, i, stores, mpc>>
vars == <<textvars, execvars>>

----------------------------------------------------------------------------
(* Bounds of the model *)

\* the input file is made of at most MaxParts fragments
MaxParts == 3
\* polyfill_wat is invoked at most MaxRuns times, each time on the previous output
MaxRuns == 2
\* the linear memory has MemSize bytes
MemSize == 4

\* the fragments input texts are made of
Fragments ==
    { "(", ")", " ", " 0", "\r\n",
      "memory.copy", "memory.fill", "memory.copy 0 0", "memory.fill 0",
      "memory.", "copy", "(func $memcpy", "(func $memset" }

----------------------------------------------------------------------------
(* The two function texts, polyfill_wat.py lines 23-78 *)

memcpy_func ==
    "\n"
    \o "  (func $memcpy (param $dest i32) (param $src i32) (param $len i32)\n"
    \o "    (local $i i32)\n"
    \o "    \n"
    \o "    (if (i32.gt_u (local.get $dest) (local.get $src))\n"
    \o "      (then\n"
    \o "        ;; Backward copy (dest > src)\n"
    \o "        (local.set $i (local.get $len))\n"
    \o "        (block $done_back\n"
    \o "          (loop $loop_back\n"
    \o "            (br_if $done_back (i32.eqz (local.get $i)))\n"
    \o "            (local.set $i (i32.sub (local.get $i) (i32.const 1)))\n"
    \o "            (i32.store8\n"
    \o "              (i32.add (local.get $dest) (local.get $i))\n"
    \o "              (i32.load8_u (i32.add (local.get $src) (local.get $i)))\n"
    \o "            )\n"
    \o "            (br $loop_back)\n"
    \o "          )\n"
    \o "        )\n"
    \o "      )\n"
    \o "      (else\n"
    \o "        ;; Forward copy (dest <= src)\n"
    \o "        (local.set $i (i32.const 0))\n"
    \o "        (block $done_fwd\n"
    \o "          (loop $loop_fwd\n"
    \o "            (br_if $done_fwd (i32.ge_u (local.get $i) (local.get $len)))\n"
    \o "            (i32.store8\n"
    \o "              (i32.add (local.get $dest) (local.get $i))\n"
    \o "              (i32.load8_u (i32.add (local.get $src) (local.get $i)))\n"
    \o "            )\n"
    \o "            (local.set $i (i32.add (local.get $i) (i32.const 1)))\n"
    \o "            (br $loop_fwd)\n"
    \o "          )\n"
    \o "        )\n"
    \o "      )\n"
    \o "    )\n"
    \o "  )\n"

memset_func ==
    "\n"
    \o "  (func $memset (param $dest i32) (param $val i32) (param $len i32)\n"
    \o "    (local $i i32)\n"
    \o "    (local.set $i (i32.const 0))\n"
    \o "    (block $done\n"
    \o "      (loop $loop\n"
    \o "        (br_if $done (i32.ge_u (local.get $i) (local.get $len)))\n"
    \o "        (i32.store8\n"
    \o "          (i32.add (local.get $dest) (local.get $i))\n"
    \o "          (local.get $val)\n"
    \o "        )\n"
    \o "        (local.set $i (i32.add (local.get $i) (i32.const 1)))\n"
    \o "        (br $loop)\n"
    \o "      )\n"
    \o "    )\n"
    \o "  )\n"

----------------------------------------------------------------------------
(* Python's string operations, as polyfill_wat uses them *)

\* the character at 1-based position p of s ("" outside s)
CharAt(s, p) == IF p >= 1 /\ p <= Len(s) THEN SubSeq(s, p, p) ELSE ""

\* the 1-based positions at which pat occurs in s
Occurrences(pat, s) ==
    { p \in 1..(Len(s) - Len(pat) + 1) : SubSeq(s, p, p + Len(pat) - 1) = pat }

\* pat in s
In(pat, s) == Occurrences(pat, s) # {}

SetMax(S) == CHOOSE x \in S : \A y \in S : y <= x
SetMin(S) == CHOOSE x \in S : \A y \in S : x <= y

\* rfind with the end of s in place of -1
rfindOrEnd(s, ch) ==
    IF Occurrences(ch, s) = {} THEN Len(s) ELSE SetMax(Occurrences(ch, s)) - 1

\* s.find(ch): the lowest 0-based index of ch in s, -1 when there is none
find(s, ch) ==
    IF Occurrences(ch, s) = {} THEN -1 ELSE SetMin(Occurrences(ch, s)) - 1

\* s.rfind(ch): the highest 0-based index of ch in s, -1 when there is none
rfind(s, ch) ==
    IF Occurrences(ch, s) = {} THEN -1 ELSE SetMax(Occurrences(ch, s)) - 1

\* s[:idx] + ins + s[idx+1:], which drops the character at idx
SpliceOver(s, idx, ins) == SubSeq(s, 1, idx) \o ins \o SubSeq(s, idx + 2, Len(s))

\* s[:idx] + ins + s[idx:], idx 0-based
Splice(s, idx, ins) == SubSeq(s, 1, idx) \o ins \o SubSeq(s, idx + 1, Len(s))

\* the regular expression class \s
IsSpace(c) == c \in {" ", "\t", "\n", "\r", "\f"}

\* \s+ is greedy: the first position >= p of s that holds no white space
RECURSIVE SkipSpace(_, _)
SkipSpace(s, p) == IF IsSpace(CharAt(s, p)) THEN SkipSpace(s, p + 1) ELSE p

\* (\s+0){n} matched at position p of s: the position after the match, 0 when
\* it does not match (white space and '0' are disjoint, so backtracking into
\* \s+ never helps)
RECURSIVE ZeroOperands(_, _, _)
ZeroOperands(s, p, n) ==
    IF n = 0 THEN p
    ELSE LET q == SkipSpace(s, p)
         IN  IF q > p /\ CharAt(s, q) = "0" THEN ZeroOperands(s, q + 1, n - 1) ELSE 0

\* mnemonic(\s+0){n}? matched at position p, where the mnemonic occurs: the
\* position after the match; the optional group is greedy
MatchEnd(s, p, mnemonic, n) ==
    LET q == ZeroOperands(s, p + Len(mnemonic), n)
    IN  IF q = 0 THEN p + Len(mnemonic) ELSE q

\* re.sub(..., count=1): the first match alone is replaced
ReSubFirst(s, from, mnemonic, n, repl) ==
    LET next == { p \in Occurrences(mnemonic, s) : p >= from }
    IN  IF next = {} THEN SubSeq(s, from, Len(s))
        ELSE LET p == SetMin(next)
             IN  SubSeq(s, from, p - 1) \o repl
                 \o SubSeq(s, MatchEnd(s, p, mnemonic, n), Len(s))

\* re.sub(mnemonic(\s+0){n}?, repl, s) from position from on: every leftmost
\* non-overlapping match is replaced
RECURSIVE ReSubFrom(_, _, _, _, _)
ReSubFrom(s, from, mnemonic, n, repl) ==
    LET next == { p \in Occurrences(mnemonic, s) : p >= from }
    IN  IF next = {} THEN SubSeq(s, from, Len(s))
        ELSE LET p == SetMin(next)
             IN  SubSeq(s, from, p - 1) \o repl
                 \o ReSubFrom(s, MatchEnd(s, p, mnemonic, n), mnemonic, n, repl)

\* re.sub(r'memory\.copy(\s+0)?', 'call $memcpy', s): one operand too few
ReSubCopyOneOperand(s) == ReSubFrom(s, 1, "memory.copy", 1, "call $memcpy")

\* re.sub(r'memory\.copy(\s+0\s+0)?', 'call $memcpy', s)
ReSubCopy(s) == ReSubFrom(s, 1, "memory.copy", 2, "call $memcpy")

\* re.sub(r'memory\.fill(\s+0)?', 'call $memset', s)
ReSubFill(s) == ReSubFrom(s, 1, "memory.fill", 1, "call $memset")

\* the two function texts in the other order
InjectedCodeFillFirst(hc, hf) ==
    (IF hf THEN memset_func ELSE "") \o (IF hc THEN memcpy_func ELSE "")

\* injected_code = "" (+ memcpy_func if has_copy) (+ memset_func if has_fill)
InjectedCode(hc, hf) ==
    (IF hc THEN memcpy_func ELSE "") \o (IF hf THEN memset_func ELSE "")

\* f.read() of a file opened with open(path, 'r'): universal newlines, every
\* '\r\n' and every other '\r' of the file is read as '\n'
RECURSIVE ReadFrom(_, _)
ReadFrom(raw, from) ==
    LET next == { p \in Occurrences("\r", raw) : p >= from }
    IN  IF next = {} THEN SubSeq(raw, from, Len(raw))
        ELSE LET p == SetMin(next)
             IN  SubSeq(raw, from, p - 1) \o "\n"
                 \o ReadFrom(raw, IF CharAt(raw, p + 1) = "\n" THEN p + 2 ELSE p + 1)

FileRead(raw) == ReadFrom(raw, 1)

\* f.write(text) to a file opened with open(path, 'w'): '\n' is written as
\* os.linesep, which is '\n' on POSIX, the platform modelled
FileWrite(text) == text

\* the text of the input file made of the fragments ps
RECURSIVE Join(_)
Join(ps) == IF ps = <<>> THEN "" ELSE Head(ps) \o Join(Tail(ps))

----------------------------------------------------------------------------
(* polyfill_wat, polyfill_wat.py lines 4-103 *)

ExecIdle ==
    /\ fn = "none" /\ mem0 = <<>> /\ mem = <<>>
    /\ dest = 0 /\ src = 0 /\ val = 0 /\ len = 0 /\ i = 0 /\ stores = 0
    /\ mpc = "idle"

Init ==
    /\ parts \in UNION { [1..n -> Fragments] : n \in 0..MaxParts }
    /\ input_file = Join(parts)
    /\ content = ""
    /\ has_copy = FALSE
    /\ has_fill = FALSE
    /\ last_paren_idx = -1
    /\ injected_code = ""
    /\ new_content = ""
    /\ output = ""
    /\ output_written = FALSE
    /\ pc = "start"
    /\ run = 1
    /\ ExecIdle

\* lines 5-6
ReadInput ==
    /\ pc = "start"
    /\ content' = FileRead(input_file)
    /\ pc' = "read"
    /\ UNCHANGED <<parts, input_file, has_copy, has_fill, last_paren_idx,
                   injected_code, new_content, output, output_written, run>>
    /\ UNCHANGED execvars

\* lines 9-10
Detect ==
    /\ pc = "read"
    /\ has_copy' = In("memory.copy", content)
    /\ has_fill' = In("memory.fill", content)
    /\ pc' = "detected"
    /\ UNCHANGED <<parts, input_file, content, last_paren_idx, injected_code, new_content,
                   output, output_written, run>>
    /\ UNCHANGED execvars

\* lines 12-16: nothing to do, the input is written out as it is
WriteUnchanged ==
    /\ pc = "detected"
    /\ ~has_copy /\ ~has_fill
    /\ output' = FileWrite(content)
    /\ output_written' = TRUE
    /\ pc' = "done"
    /\ UNCHANGED <<parts, input_file, content, has_copy, has_fill, last_paren_idx,
                   injected_code, new_content, run>>
    /\ UNCHANGED execvars

\* lines 81-83
FindLastParen ==
    /\ pc = "detected"
    /\ has_copy \/ has_fill
    /\ last_paren_idx' = rfind(content, ")")
    /\ pc' = IF rfind(content, ")") = -1 THEN "raised" ELSE "found"
    /\ UNCHANGED <<parts, input_file, content, has_copy, has_fill, injected_code, new_content,
                   output, output_written, run>>
    /\ UNCHANGED execvars

\* lines 85-91
Inject ==
    /\ pc = "found"
    /\ injected_code' = InjectedCode(has_copy, has_fill)
    /\ new_content' = Splice(content, last_paren_idx, InjectedCode(has_copy, has_fill))
    /\ pc' = "injected"
    /\ UNCHANGED <<parts, input_file, content, has_copy, has_fill, last_paren_idx,
                   output, output_written, run>>
    /\ UNCHANGED execvars

\* lines 94-96
ReplaceCopy ==
    /\ pc = "injected"
    /\ new_content' = IF has_copy THEN ReSubCopy(new_content) ELSE new_content
    /\ pc' = "copy_replaced"
    /\ UNCHANGED <<parts, input_file, content, has_copy, has_fill, last_paren_idx,
                   injected_code, output, output_written, run>>
    /\ UNCHANGED execvars

\* lines 98-100
ReplaceFill ==
    /\ pc = "copy_replaced"
    /\ new_content' = IF has_fill THEN ReSubFill(new_content) ELSE new_content
    /\ pc' = "rewritten"
    /\ UNCHANGED <<parts, input_file, content, has_copy, has_fill, last_paren_idx,
                   injected_code, output, output_written, run>>
    /\ UNCHANGED execvars

\* lines 102-103
WriteOutput ==
    /\ pc = "rewritten"
    /\ output' = FileWrite(new_content)
    /\ output_written' = TRUE
    /\ pc' = "done"
    /\ UNCHANGED <<parts, input_file, content, has_copy, has_fill, last_paren_idx,
                   injected_code, new_content, run>>
    /\ UNCHANGED execvars

\* lines 105-110: the program is invoked again, on the file the
\* previous invocation wrote, with a fresh output path
RunAgain ==
    /\ pc = "done"
    /\ run < MaxRuns
    /\ run' = run + 1
    /\ parts' = <<output>>
    /\ input_file' = output
    /\ content' = ""
    /\ has_copy' = FALSE
    /\ has_fill' = FALSE
    /\ last_paren_idx' = -1
    /\ injected_code' = ""
    /\ new_content' = ""
    /\ output' = ""
    /\ output_written' = FALSE
    /\ pc' = "start"
    /\ UNCHANGED execvars

Next ==
    \/ ReadInput
    \/ Detect
    \/ WriteUnchanged
    \/ FindLastParen
    \/ Inject
    \/ ReplaceCopy
    \/ ReplaceFill
    \/ WriteOutput
    \/ RunAgain

Spec == Init /\ [][Next]_vars

----------------------------------------------------------------------------
(* Execution of the injected functions, polyfill_wat.py lines 24-59 and 63-77 *)

\* the fill values the model calls $memset with
MemsetVals == {0, 1, 255, 256, 511}

\* the offsets and lengths the model calls the functions with; -1 is 2^32 - 1
Offsets == 0..MemSize \cup {-1}

\* An i32 is modelled by the integer it denotes as a signed 32-bit number:
\* the unsigned value u is u below 2^31 and u - 2^32 from there on
\* (TLC's integers end at 2^31 - 1).
MaxI32 == 2147483647
MinI32 == -MaxI32 - 1

\* i32.add: addition modulo 2^32
I32Add(a, b) ==
    IF a > 0 /\ b > 0 /\ a > MaxI32 - b THEN (a - MaxI32 - 1) + (b - MaxI32 - 1)
    ELSE IF a < 0 /\ b < 0 /\ a < MinI32 - b THEN (a + MaxI32 + 1) + (b + MaxI32 + 1)
    ELSE a + b

\* i32.sub: subtraction modulo 2^32
I32Sub(a, b) == IF b = MinI32 THEN I32Add(I32Add(a, MaxI32), 1) ELSE I32Add(a, -b)

\* i32.lt_u
I32LtU(a, b) == IF (a < 0) = (b < 0) THEN a < b ELSE b < 0

\* i32.gt_u, i32.ge_u: unsigned comparison
I32GtU(a, b) == IF (a < 0) = (b < 0) THEN a > b ELSE a < 0
I32GeU(a, b) == IF (a < 0) = (b < 0) THEN a >= b ELSE a < 0

\* i32.eqz
I32Eqz(a) == a = 0

\* a store of the whole value
NoWrap8(v) == v

\* i32.store8 keeps the low 8 bits of the value
Wrap8(v) == v % 256

\* an access of one byte at address a is inside the memory
InBounds(a) == a >= 0 /\ a < MemSize

TextIdle ==
    /\ parts = <<>> /\ input_file = "" /\ content = "" /\ has_copy = FALSE /\ has_fill = FALSE
    /\ last_paren_idx = -1 /\ injected_code = "" /\ new_content = ""
    /\ output = "" /\ output_written = FALSE /\ pc = "idle" /\ run = 0

\* a call of $memcpy (dest, src, len) or of $memset (dest, val, len)
InitExec ==
    /\ TextIdle
    /\ fn \in {"memcpy", "memset"}
    /\ mem0 \in [0..(MemSize - 1) -> {0, 1}]
    /\ mem = mem0
    /\ dest \in Offsets
    /\ len \in Offsets
    /\ src \in (IF fn = "memcpy" THEN Offsets ELSE {0})
    /\ val \in (IF fn = "memset" THEN MemsetVals ELSE {0})
    /\ i = 0
    /\ stores = 0
    /\ mpc = "entry"

\* line 27: (if (i32.gt_u (local.get $dest) (local.get $src))
CopyEntry ==
    /\ fn = "memcpy" /\ mpc = "entry"
    /\ mpc' = IF I32GtU(dest, src) THEN "back_init" ELSE "fwd_init"
    /\ UNCHANGED <<fn, mem0, mem, dest, src, val, len, i, stores>>
    /\ UNCHANGED textvars

\* line 30: (local.set $i (local.get $len))
CopyBackInit ==
    /\ mpc = "back_init"
    /\ i' = len
    /\ mpc' = "back_test"
    /\ UNCHANGED <<fn, mem0, mem, dest, src, val, len, stores>>
    /\ UNCHANGED textvars

\* line 33: (br_if $done_back (i32.eqz (local.get $i)))
CopyBackTest ==
    /\ mpc = "back_test"
    /\ mpc' = IF I32Eqz(i) THEN "return" ELSE "back_dec"
    /\ UNCHANGED <<fn, mem0, mem, dest, src, val, len, i, stores>>
    /\ UNCHANGED textvars

\* line 34: (local.set $i (i32.sub (local.get $i) (i32.const 1)))
CopyBackDec ==
    /\ mpc = "back_dec"
    /\ i' = I32Sub(i, 1)
    /\ mpc' = "back_store"
    /\ UNCHANGED <<fn, mem0, mem, dest, src, val, len, stores>>
    /\ UNCHANGED textvars

\* (i32.store8 (i32.add dest i) (i32.load8_u (i32.add src i))): the load and
\* the store trap outside the memory
CopyByte(next) ==
    LET from == I32Add(src, i)
        to == I32Add(dest, i)
    IN  IF InBounds(from) /\ InBounds(to)
        THEN /\ mem' = [mem EXCEPT ![to] = Wrap8(mem[from])]
             /\ stores' = stores + 1
             /\ mpc' = next
        ELSE /\ mpc' = "trap"
             /\ UNCHANGED <<mem, stores>>

\* lines 35-39, then (br $loop_back)
CopyBackStore ==
    /\ mpc = "back_store"
    /\ CopyByte("back_test")
    /\ UNCHANGED <<fn, mem0, dest, src, val, len, i>>
    /\ UNCHANGED textvars

\* line 45: (local.set $i (i32.const 0))
CopyFwdInit ==
    /\ mpc = "fwd_init"
    /\ i' = 0
    /\ mpc' = "fwd_test"
    /\ UNCHANGED <<fn, mem0, mem, dest, src, val, len, stores>>
    /\ UNCHANGED textvars

\* line 48: (br_if $done_fwd (i32.ge_u (local.get $i) (local.get $len)))
CopyFwdTest ==
    /\ mpc = "fwd_test"
    /\ mpc' = IF I32GeU(i, len) THEN "return" ELSE "fwd_store"
    /\ UNCHANGED <<fn, mem0, mem, dest, src, val, len, i, stores>>
    /\ UNCHANGED textvars

\* lines 49-52
CopyFwdStore ==
    /\ mpc = "fwd_store"
    /\ CopyByte("fwd_inc")
    /\ UNCHANGED <<fn, mem0, dest, src, val, len, i>>
    /\ UNCHANGED textvars

\* lines 53-54: (local.set $i (i32.add (local.get $i) (i32.const 1))), (br $loop_fwd)
CopyFwdInc ==
    /\ mpc = "fwd_inc"
    /\ i' = I32Add(i, 1)
    /\ mpc' = "fwd_test"
    /\ UNCHANGED <<fn, mem0, mem, dest, src, val, len, stores>>
    /\ UNCHANGED textvars

\* line 65: (local.set $i (i32.const 0))
SetInit ==
    /\ fn = "memset" /\ mpc = "entry"
    /\ i' = 0
    /\ mpc' = "set_test"
    /\ UNCHANGED <<fn, mem0, mem, dest, src, val, len, stores>>
    /\ UNCHANGED textvars

\* line 68: (br_if $done (i32.ge_u (local.get $i) (local.get $len)))
SetTest ==
    /\ mpc = "set_test"
    /\ mpc' = IF I32GeU(i, len) THEN "return" ELSE "set_store"
    /\ UNCHANGED <<fn, mem0, mem, dest, src, val, len, i, stores>>
    /\ UNCHANGED textvars

\* lines 69-72: (i32.store8 (i32.add dest i) (local.get $val))
SetStore ==
    /\ mpc = "set_store"
    /\ IF InBounds(I32Add(dest, i))
       THEN /\ mem' = [mem EXCEPT ![I32Add(dest, i)] = Wrap8(val)]
            /\ stores' = stores + 1
            /\ mpc' = "set_inc"
       ELSE /\ mpc' = "trap"
            /\ UNCHANGED <<mem, stores>>
    /\ UNCHANGED <<fn, mem0, dest, src, val, len, i>>
    /\ UNCHANGED textvars

\* lines 73-74: (local.set $i (i32.add (local.get $i) (i32.const 1))), (br $loop)
SetInc ==
    /\ mpc = "set_inc"
    /\ i' = I32Add(i, 1)
    /\ mpc' = "set_test"
    /\ UNCHANGED <<fn, mem0, mem, dest, src, val, len, stores>>
    /\ UNCHANGED textvars

NextExec ==
    \/ CopyEntry
    \/ CopyBackInit
    \/ CopyBackTest
    \/ CopyBackDec
    \/ CopyBackStore
    \/ CopyFwdInit
    \/ CopyFwdTest
    \/ CopyFwdStore
    \/ CopyFwdInc
    \/ SetInit
    \/ SetTest
    \/ SetStore
    \/ SetInc

SpecExec == InitExec /\ [][NextExec]_vars

----------------------------------------------------------------------------
(* Properties of polyfill_wat (specification Spec) *)

\* s holds one of the two mnemonics
HasMnemonic(s) ==
    \E p \in 1..(Len(s) - 10) : SubSeq(s, p, p + 10) \in {"memory.copy", "memory.fill"}

\* s holds a ')'
HasParen(s) == \E p \in 1..Len(s) : SubSeq(s, p, p) = ")"

\* the number of occurrences of pat in s
Count(pat, s) ==
    Cardinality({ p \in 1..(Len(s) - Len(pat) + 1) : SubSeq(s, p, p + Len(pat) - 1) = pat })

\* C1: an input text that holds neither 'memory.copy' nor 'memory.fill' is
\* written to the output exactly as it is: nothing is injected, nothing is
\* rewritten.
C1_NoMnemonicCopiesInput ==
    (pc = "done" /\ ~HasMnemonic(input_file))
        => (output_written /\ output = input_file)

\* C2 as stated: whenever the input text holds no ')', no output file is
\* written (the run aborts).
C2_NoParenNeverWrites ==
    ~HasParen(input_file) => (~output_written /\ pc # "done")

\* C2, amended: when the input text holds one of the mnemonics and no ')', the
\* run never gets past the search for the last ')', where it raises, and the
\* output file is not written.
C2_MnemonicNoParenAborts ==
    (HasMnemonic(input_file) /\ ~HasParen(input_file))
        => (~output_written /\ pc \in {"start", "read", "detected", "raised"})

\* C2 happens: the run raised on a text with a mnemonic and no ')'
C2_Witness ==
    /\ pc = "raised" /\ HasMnemonic(input_file) /\ ~HasParen(input_file)
    /\ ~output_written /\ last_paren_idx = -1

\* C5 as stated: for an input with one of the mnemonics, without the other and
\* with a ')', the output holds exactly one definition of that mnemonic's
\* function, none of the other function, and no occurrence of the mnemonic.
C5_ExactlyOneDefinition ==
    (pc = "done" /\ run = 1 /\ HasParen(input_file))
        => /\ (Count("memory.copy", input_file) > 0 /\ Count("memory.fill", input_file) = 0)
                => /\ Count("(func $memcpy", output) = 1
                   /\ Count("(func $memset", output) = 0
                   /\ Count("memory.copy", output) = 0
           /\ (Count("memory.fill", input_file) > 0 /\ Count("memory.copy", input_file) = 0)
                => /\ Count("(func $memset", output) = 1
                   /\ Count("(func $memcpy", output) = 0
                   /\ Count("memory.fill", output) = 0

\* C6: for an input with both mnemonics and a ')', the output holds the text
\* of $memcpy immediately followed by the text of $memset, and no occurrence
\* of 'memory.copy' or of 'memory.fill'.
C6_BothInOrder ==
    (pc = "done" /\ run = 1 /\ HasParen(input_file)
        /\ Count("memory.copy", input_file) > 0 /\ Count("memory.fill", input_file) > 0)
        => /\ \E p \in 1..(Len(output) - Len(memcpy_func) - Len(memset_func) + 1) :
                /\ SubSeq(output, p, p + 15) = "\n  (func $memcpy"
                /\ SubSeq(output, p, p + Len(memcpy_func) + Len(memset_func) - 1)
                        = memcpy_func \o memset_func
           /\ Count("memory.copy", output) = 0
           /\ Count("memory.fill", output) = 0

\* C6 happens: a run on a text with both mnemonics ended, and the output calls
\* both functions
C6_Witness ==
    /\ pc = "done" /\ run = 1
    /\ Count("memory.copy", input_file) > 0 /\ Count("memory.fill", input_file) > 0
    /\ Count("call $memcpy", output) > 0 /\ Count("call $memset", output) > 0
    /\ Count("(func $memcpy", output) > 0 /\ Count("(func $memset", output) > 0

\* the instructions as the claim C7 writes them, and the other tokens of a
\* text in which every instruction is followed by a token that is no operand
InstructionForms == {"memory.copy", "memory.copy 0 0", "memory.fill", "memory.fill 0"}
OtherTokens == {"(", ")", "(func $memcpy", "(func $memset"}

\* the call an instruction becomes
AsCall(token) ==
    IF token \in {"memory.copy", "memory.copy 0 0"} THEN "call $memcpy"
    ELSE IF token \in {"memory.fill", "memory.fill 0"} THEN "call $memset"
    ELSE token

RECURSIVE JoinCalls(_)
JoinCalls(ps) == IF ps = <<>> THEN "" ELSE AsCall(Head(ps)) \o JoinCalls(Tail(ps))

\* C7: when every instruction of the input is written bare or with its zero
\* operands ('memory.copy 0 0', 'memory.fill 0'), the rewritten buffer is the
\* input with each instruction, operands included, replaced by
\* 'call $memcpy' / 'call $memset' (and the function texts before the last
\* ')'): no operand is left behind.
C7_OperandsConsumed ==
    (pc \in {"rewritten", "done"} /\ run = 1 /\ (has_copy \/ has_fill)
        /\ \A k \in 1..Len(parts) : parts[k] \in InstructionForms \cup OtherTokens)
        => LET last == SetMax({ k \in 1..Len(parts) : parts[k] = ")" })
           IN  new_content = JoinCalls(SubSeq(parts, 1, last - 1))
                               \o injected_code
                               \o JoinCalls(SubSeq(parts, last, Len(parts)))

\* C7 happens: 'memory.copy 0 0' and 'memory.fill 0' were rewritten
C7_Witness ==
    /\ pc = "done" /\ run = 1
    /\ parts = <<"memory.copy 0 0", "memory.fill 0", ")">>
    /\ SubSeq(output, 1, 25) = "call $memcpycall $memset\n"

\* C8: after the injection the buffer is the input up to its last ')', then
\* the function texts, then the input from its last ')' on.
C8_InjectedBeforeLastParen ==
    pc = "injected"
        => LET k == CHOOSE p \in 1..Len(content) :
                        /\ SubSeq(content, p, p) = ")"
                        /\ \A q \in (p + 1)..Len(content) : SubSeq(content, q, q) # ")"
               funcs == (IF Count("memory.copy", content) > 0 THEN memcpy_func ELSE "")
                        \o (IF Count("memory.fill", content) > 0 THEN memset_func ELSE "")
           IN  /\ Len(new_content) = Len(content) + Len(funcs)
               /\ SubSeq(new_content, 1, k - 1) = SubSeq(content, 1, k - 1)
               /\ SubSeq(new_content, k, k + Len(funcs) - 1) = funcs
               /\ SubSeq(new_content, k + Len(funcs), Len(new_content))
                    = SubSeq(content, k, Len(content))

\* C8 happens: the injection was made into a text with two ')' and text after
\* the last one
C8_Witness ==
    /\ pc = "injected"
    /\ Count(")", content) = 2
    /\ SubSeq(content, Len(content), Len(content)) # ")"
    /\ Len(new_content) > Len(content)

\* the parentheses of s are well nested: as many '(' as ')', and up to each
\* ')' at least as many '(' as ')'
Balanced(s) ==
    LET opens == { p \in 1..Len(s) : SubSeq(s, p, p) = "(" }
        closes == { p \in 1..Len(s) : SubSeq(s, p, p) = ")" }
    IN  /\ Cardinality(opens) = Cardinality(closes)
        /\ \A c \in closes :
              Cardinality({ o \in opens : o < c }) >= Cardinality({ d \in closes : d <= c })

\* C9: when the parentheses of the input are well nested, those of the buffer
\* are well nested after the detection, after the injection, after each
\* rewrite, and in the output.
C9_StaysBalanced ==
    Balanced(input_file)
        => /\ pc \in {"read", "detected", "found"} => Balanced(content)
           /\ pc \in {"injected", "copy_replaced", "rewritten"} => Balanced(new_content)
           /\ pc = "done" => Balanced(output)

\* C9 happens: a well nested text with both mnemonics went through the
\* injection and both rewrites
C9_Witness ==
    /\ pc = "rewritten" /\ run = 1
    /\ Balanced(input_file) /\ HasParen(input_file)
    /\ Count("call $memcpy", new_content) > 0
    /\ Count("(func $memcpy", new_content) > 0
    /\ Balanced(new_content)

\* C10: a run on the output of a completed run does not raise and writes that
\* output unchanged.
C10_Idempotent ==
    run >= 2 => (pc # "raised" /\ (pc = "done" => (output_written /\ output = input_file)))

\* C10 happens: the second run ended on an output of the first in which a
\* replacement sits right after 'memory.'
C10_Witness ==
    /\ run = 2 /\ pc = "done"
    /\ Count("memory.call $memcpy", input_file) > 0
    /\ Count("(func $memcpy", input_file) > 0
    /\ output = input_file

----------------------------------------------------------------------------
(* Properties of the injected functions (specification SpecExec) *)

\* [a, a + n) lies inside the memory
InMemory(a, n) == a >= 0 /\ n >= 0 /\ a + n <= MemSize

\* C3: $memcpy moves: when [dest, dest+len) and [src, src+len) lie inside the
\* memory the call returns, byte dest+k is then the original byte src+k for
\* every k < len, every other byte is unchanged, and a call with len = 0
\* stores nothing.
C3_MemcpyMoves ==
    (fn = "memcpy" /\ InMemory(dest, len) /\ InMemory(src, len))
        => /\ mpc # "trap"
           /\ len = 0 => stores = 0
           /\ mpc = "return"
                => /\ \A k \in 0..(len - 1) : mem[dest + k] = mem0[src + k]
                   /\ \A a \in 0..(MemSize - 1) :
                        (a < dest \/ a >= dest + len) => mem[a] = mem0[a]

\* C3 happens: an overlapping copy to the higher address returned, and a byte
\* a forward copy would have overwritten arrived
C3_Witness ==
    /\ fn = "memcpy" /\ mpc = "return"
    /\ dest = 1 /\ src = 0 /\ len = 3
    /\ mem0[0] = 0 /\ mem0[1] = 1
    /\ mem[2] = 1 /\ stores = 3

\* C4: $memset fills: when [dest, dest+len) lies inside the memory the call
\* returns, byte dest+k is then val mod 256 for every k < len, every other
\* byte is unchanged, and a call with len = 0 stores nothing.
C4_MemsetFills ==
    (fn = "memset" /\ InMemory(dest, len))
        => /\ mpc # "trap"
           /\ len = 0 => stores = 0
           /\ mpc = "return"
                => /\ \A k \in 0..(len - 1) : mem[dest + k] = val % 256
                   /\ \A a \in 0..(MemSize - 1) :
                        (a < dest \/ a >= dest + len) => mem[a] = mem0[a]

\* C4 happens: a fill with a value above 255 returned
C4_Witness ==
    /\ fn = "memset" /\ mpc = "return"
    /\ dest = 1 /\ val = 511 /\ len = 2
    /\ mem[1] = 255 /\ mem[2] = 255 /\ mem[0] = mem0[0] /\ stores = 2

====
